---- MODULE Spec2Model ----
(***************************************************************************)
(* Unit composition and spawn system of dark-arts-defens-ldjam55           *)
(* (src/src/units/unit_types.rs).                                          *)
(*                                                                         *)
(* The world is an entity store: a function from entity ids to entities,   *)
(* an entity being a function from component type names to values.         *)
(* spawn_unit writes through bevy's Commands, so a call reserves entity    *)
(* ids and appends commands to a queue; the queue is applied to the world  *)
(* at the next synchronisation point, with exclusive access to the world.  *)
(*                                                                         *)
(* Floats are kept as integers: speeds as whole numbers, the uniform       *)
(* scale factor in tenths (0.8 is 8, 1.8 is 18).                           *)
(***************************************************************************)
EXTENDS Integers, Sequences, FiniteSets, TLC

VARIABLES
    world,          \* the entity store: entity id -> (component name -> value)
    queue,          \* commands issued through Commands and not yet applied
    next_id,        \* the next entity id the allocator hands out
    calls,          \* history of spawn_unit calls: arguments and returned handle
    unit_resource,  \* [ready, map]: the UnitResource registry
    lookup,         \* outcome of the last UnitResource::get
    panicked,       \* the process has panicked
    default_team,   \* CurrentTeam::default(), defined outside this file
    default_weight  \* weight of the Idle entry of BehaviorBundle::default()

vars == <<world, queue, next_id, calls, unit_resource, lookup, panicked,
          default_team, default_weight>>

-----------------------------------------------------------------------------
(* Bounds of the model *)

MaxSpawns == 2

-----------------------------------------------------------------------------
(* Vocabulary *)

UnitType == {"Acolyte", "Warrior", "Cat", "Knight"}

Team == {"Player", "Enemy"}

\* sample world positions handed to spawn_unit (x, y)
SpawnPositions == {<<100, 50>>, <<-3, 7>>}

\* sample weights for the Idle entry of the default repertoire
DefaultWeights == {0, 1}

\* UnitBundle::default(): every field at its type's default
UnitBundle_default ==
    [movement |-> [speed |-> 0],
     velocity |-> <<0, 0>>,
     current_animation |-> "default",
     transform |-> [translation |-> <<0, 0, 0>>, scale |-> 10],
     global_transform |-> "default",
     inherited_visibility |-> "default",
     health |-> 0,
     team |-> default_team,
     cleanup |-> "default"]

\* Transform::from_scale(Vec3::splat(s)), s in tenths
Transform_from_scale(s) == [translation |-> <<0, 0, 0>>, scale |-> s]

\* BehaviorBundle::default(): the idle-only repertoire
BehaviorBundle_default ==
    [current_behavior |-> "Idle",
     supported_behaviors |-> << <<"Idle", default_weight>> >>]

\* the tuple -> AnimatedChildSpawnParams conversion (`data.into()`)
AnimatedChildSpawnParams_from(t) ==
    [sprite_sheet_path |-> t[1],
     frame_size |-> t[2],
     grid |-> t[3],
     frame_count |-> t[4],
     kind |-> t[5],
     loops |-> t[6],
     attack_triggered |-> t[7]]

MapInto(ts) == [i \in 1..Len(ts) |-> AnimatedChildSpawnParams_from(ts[i])]

-----------------------------------------------------------------------------
(* The unit type factories: impl UnitChildrenSpawnParamsFactory for ... *)

Acolyte_create_unit_bundle ==
    [UnitBundle_default EXCEPT !.movement = [speed |-> 75],
                               !.health = 50,
                               !.transform = Transform_from_scale(8)]

Acolyte_create_behavior_bundle ==
    [current_behavior |-> "Idle",
     supported_behaviors |-> << <<"Idle", 5>>, <<"Flee", 10>>, <<"Dead", 15>> >>]

Mut_Acolyte_children_frames ==
    MapInto(<<
        <<"acolyte/acolyte_idle.png", <<80, 80>>, <<3, 4>>, 9, "Idle", TRUE, FALSE>>,
        <<"acolyte/acolyte_idle.png", <<80, 80>>, <<3, 4>>, 9, "Walk", TRUE, FALSE>>,
        <<"acolyte/acolyte_death.png", <<80, 80>>, <<3, 4>>, 19, "Death", FALSE, FALSE>>
    >>)

Acolyte_create_children_spawn_params ==
    MapInto(<<
        <<"acolyte/acolyte_idle.png", <<80, 80>>, <<3, 4>>, 9, "Idle", TRUE, FALSE>>,
        <<"acolyte/acolyte_idle.png", <<80, 80>>, <<3, 4>>, 9, "Walk", TRUE, FALSE>>,
        <<"acolyte/acolyte_death.png", <<80, 80>>, <<3, 4>>, 9, "Death", FALSE, FALSE>>
    >>)

Warrior_create_unit_bundle ==
    [UnitBundle_default EXCEPT !.movement = [speed |-> 200],
                               !.health = 255,
                               !.transform = Transform_from_scale(18)]

Warrior_create_behavior_bundle == BehaviorBundle_default

Warrior_create_children_spawn_params ==
    MapInto(<<
        <<"warrior/warrior_idle.png", <<96, 96>>, <<21, 1>>, 20, "Idle", TRUE, FALSE>>,
        <<"warrior/warrior_walk.png", <<96, 96>>, <<11, 1>>, 10, "Walk", TRUE, FALSE>>,
        <<"warrior/warrior_death.png", <<96, 96>>, <<36, 1>>, 35, "Death", FALSE, FALSE>>,
        <<"warrior/warrior_attack.png", <<96, 96>>, <<33, 1>>, 32, "Attack", FALSE, TRUE>>
    >>)

Cat_create_unit_bundle ==
    [UnitBundle_default EXCEPT !.movement = [speed |-> 300],
                               !.health = 125,
                               !.transform = Transform_from_scale(14)]

Cat_create_behavior_bundle == BehaviorBundle_default

Cat_create_children_spawn_params ==
    MapInto(<<
        <<"cat/cat_idle.png", <<96, 96>>, <<10, 1>>, 9, "Idle", TRUE, FALSE>>,
        <<"cat/cat_walk.png", <<96, 96>>, <<8, 1>>, 7, "Walk", TRUE, FALSE>>,
        <<"cat/cat_death.png", <<96, 96>>, <<18, 1>>, 17, "Death", FALSE, FALSE>>,
        <<"cat/cat_attack.png", <<96, 96>>, <<27, 1>>, 26, "Attack", FALSE, TRUE>>
    >>)

Knight_create_unit_bundle ==
    [UnitBundle_default EXCEPT !.movement = [speed |-> 250],
                               !.health = 90,
                               !.transform = Transform_from_scale(15)]

Mut_Knight_behavior_initial ==
    [supported_behaviors |-> << <<"Wander", 3>>, <<"MoveOrigo", 5>>, <<"Chase", 10>>,
                                <<"Attack", 15>>, <<"Dead", 20>> >>,
     current_behavior |-> "Idle"]

Mut_Knight_behavior_weights ==
    [supported_behaviors |-> << <<"Wander", 3>>, <<"MoveOrigo", 5>>, <<"Chase", 15>>,
                                <<"Attack", 15>>, <<"Dead", 20>> >>,
     current_behavior |-> "MoveOrigo"]

Knight_create_behavior_bundle ==
    [supported_behaviors |-> << <<"Wander", 3>>, <<"MoveOrigo", 5>>, <<"Chase", 10>>,
                                <<"Attack", 15>>, <<"Dead", 20>> >>,
     current_behavior |-> "MoveOrigo"]

Knight_create_children_spawn_params ==
    MapInto(<<
        <<"enemy/enemy_idle.png", <<64, 64>>, <<12, 1>>, 11, "Idle", TRUE, FALSE>>,
        <<"enemy/enemy_move.png", <<96, 64>>, <<8, 1>>, 7, "Walk", TRUE, FALSE>>,
        <<"enemy/enemy_death.png", <<96, 64>>, <<15, 1>>, 14, "Death", FALSE, FALSE>>,
        <<"enemy/enemy_attack.png", <<144, 64>>, <<22, 1>>, 21, "Attack", FALSE, TRUE>>
    >>)

-----------------------------------------------------------------------------
(* Other implementors of the trait: spawn_unit accepts any                 *)
(* `impl UnitChildrenSpawnParamsFactory + Clone`, also one whose static    *)
(* data is malformed.                                                      *)

\* current behavior absent from the supported entries
BrokenRepertoire_create_behavior_bundle ==
    [current_behavior |-> "Chase",
     supported_behaviors |-> << <<"Idle", 5>>, <<"Dead", 15>> >>]

\* frame_count 13 on a 3 x 4 grid
BrokenClip_create_children_spawn_params ==
    MapInto(<<
        <<"broken/idle.png", <<80, 80>>, <<3, 4>>, 13, "Idle", TRUE, FALSE>>
    >>)

\* no Idle clip
NoIdle_create_children_spawn_params ==
    MapInto(<<
        <<"broken/walk.png", <<80, 80>>, <<3, 4>>, 9, "Walk", TRUE, FALSE>>,
        <<"broken/death.png", <<80, 80>>, <<3, 4>>, 9, "Death", FALSE, FALSE>>
    >>)

MalformedFactories == {"BrokenRepertoire", "BrokenClip", "NoIdle"}

-----------------------------------------------------------------------------
(* Dynamic dispatch on the trait's three methods.  The malformed           *)
(* implementors return the Acolyte's data from the methods they leave     *)
(* intact.                                                                 *)

create_unit_bundle(unit_component) ==
    CASE unit_component = "Acolyte" -> Acolyte_create_unit_bundle
      [] unit_component = "Warrior" -> Warrior_create_unit_bundle
      [] unit_component = "Cat" -> Cat_create_unit_bundle
      [] unit_component = "Knight" -> Knight_create_unit_bundle
      [] OTHER -> Acolyte_create_unit_bundle

create_behavior_bundle(unit_component) ==
    CASE unit_component = "Acolyte" -> Acolyte_create_behavior_bundle
      [] unit_component = "Warrior" -> Warrior_create_behavior_bundle
      [] unit_component = "Cat" -> Cat_create_behavior_bundle
      [] unit_component = "Knight" -> Knight_create_behavior_bundle
      [] unit_component = "BrokenRepertoire" -> BrokenRepertoire_create_behavior_bundle
      [] OTHER -> Acolyte_create_behavior_bundle

create_children_spawn_params(unit_component) ==
    CASE unit_component = "Acolyte" -> Acolyte_create_children_spawn_params
      [] unit_component = "Warrior" -> Warrior_create_children_spawn_params
      [] unit_component = "Cat" -> Cat_create_children_spawn_params
      [] unit_component = "Knight" -> Knight_create_children_spawn_params
      [] unit_component = "BrokenClip" -> BrokenClip_create_children_spawn_params
      [] unit_component = "NoIdle" -> NoIdle_create_children_spawn_params
      [] OTHER -> Acolyte_create_children_spawn_params

-----------------------------------------------------------------------------
(* spawn_unit: the commands one call issues, `entity` being the id         *)
(* reserved for the new unit                                               *)

\* lines 347-349, without the team override
Mut_unit_bundle_keeps_default_team(unit_component, team, spawn_position) ==
    [create_unit_bundle(unit_component) EXCEPT
        !.transform.translation = <<spawn_position[1], spawn_position[2], 0>>]

\* lines 347-349: the factory's bundle with team and translation overwritten
spawn_unit_bundle(unit_component, team, spawn_position) ==
    [create_unit_bundle(unit_component) EXCEPT
        !.team = team,
        !.transform.translation = <<spawn_position[1], spawn_position[2], 0>>]

\* a #[derive(Bundle)] UnitBundle as components, one per field
UnitBundle_components(b) ==
    [Movement |-> b.movement,
     Velocity |-> b.velocity,
     CurrentAnimation |-> b.current_animation,
     Transform |-> b.transform,
     GlobalTransform |-> b.global_transform,
     InheritedVisibility |-> b.inherited_visibility,
     Health |-> b.health,
     CurrentTeam |-> b.team,
     Cleanup |-> b.cleanup]

\* a BehaviorBundle as components, one per field
BehaviorBundle_components(b) ==
    [CurrentBehavior |-> b.current_behavior,
     SupportedBehaviors |-> b.supported_behaviors]

\* line 352: commands.spawn((unit_bundle, behavior_bundle.clone()))
commands_spawn(entity, unit_bundle, behavior_bundle) ==
    [op |-> "spawn", entity |-> entity,
     bundle |-> UnitBundle_components(unit_bundle)
                @@ BehaviorBundle_components(behavior_bundle)]

\* the match with the Flee arm inserting the Idle marker
Mut_marker_flee_as_idle(behavior) ==
    CASE behavior = "Idle" -> "IdleBehavior"
      [] behavior = "MoveOrigo" -> "MoveOrigoBehavior"
      [] behavior = "Wander" -> "WanderBehavior"
      [] behavior = "Chase" -> "ChaseBehavior"
      [] behavior = "Flee" -> "IdleBehavior"
      [] behavior = "Attack" -> "AttackBehavior"
      [] behavior = "Dead" -> "DeadBehavior"

\* lines 359-381: the marker component each arm of the match inserts
marker_component(behavior) ==
    CASE behavior = "Idle" -> "IdleBehavior"
      [] behavior = "MoveOrigo" -> "MoveOrigoBehavior"
      [] behavior = "Wander" -> "WanderBehavior"
      [] behavior = "Chase" -> "ChaseBehavior"
      [] behavior = "Flee" -> "FleeBehavior"
      [] behavior = "Attack" -> "AttackBehavior"
      [] behavior = "Dead" -> "DeadBehavior"

\* lines 354-382: one entity.insert per entry of supported_behaviors
insert_behaviors(entity, supported_behaviors) ==
    [i \in 1..Len(supported_behaviors) |->
        [op |-> "insert", entity |-> entity,
         component |-> marker_component(supported_behaviors[i][1]),
         value |-> supported_behaviors[i][1]]]

\* animation::spawn_animated_children: one child visual entity per clip
spawn_animated_children(parent, params) ==
    [i \in 1..Len(params) |->
        [op |-> "spawn", entity |-> parent + i,
         bundle |-> [AnimatedChild |-> params[i]]]]

\* lines 384-391 with the clip list never handed over
Mut_with_children_empty(entity, params) ==
    << [op |-> "push_children", entity |-> entity, children |-> <<>>] >>

\* lines 384-391: entity.with_children(|parent| spawn_animated_children(..))
with_children(entity, params) ==
    spawn_animated_children(entity, params)
    \o << [op |-> "push_children", entity |-> entity,
           children |-> [i \in 1..Len(params) |-> entity + i]] >>

\* lines 339-394: everything one spawn_unit call writes through Commands
spawn_unit(unit_component, team, spawn_position, entity) ==
    LET unit_bundle == spawn_unit_bundle(unit_component, team, spawn_position)
        behavior_bundle == create_behavior_bundle(unit_component)
    IN  << commands_spawn(entity, unit_bundle, behavior_bundle) >>
        \o insert_behaviors(entity, behavior_bundle.supported_behaviors)
        \o with_children(entity, create_children_spawn_params(unit_component))

-----------------------------------------------------------------------------
(* Applying queued commands to the world *)

Range(f) == {f[i] : i \in DOMAIN f}

\* one command against the entity store
ApplyCommand(w, c) ==
    CASE c.op = "spawn" ->
            (c.entity :> c.bundle) @@ w
      [] c.op = "insert" ->
            [w EXCEPT ![c.entity] = (c.component :> c.value) @@ @]
      [] c.op = "push_children" ->
            [e \in DOMAIN w |->
                IF e = c.entity
                THEN ("Children" :>
                        (IF "Children" \in DOMAIN w[e] THEN w[e].Children ELSE <<>>)
                        \o c.children) @@ w[e]
                ELSE IF e \in Range(c.children)
                THEN ("Parent" :> c.entity) @@ w[e]
                ELSE w[e]]

RECURSIVE ApplyAll(_, _)
\* the whole queue, in issue order
ApplyAll(w, q) ==
    IF q = <<>> THEN w ELSE ApplyAll(ApplyCommand(w, Head(q)), Tail(q))

-----------------------------------------------------------------------------
(* The unit type registry *)

EmptyMap == [t \in {} |-> t]

RECURSIVE collect(_)
\* Iterator::collect into a HashMap: a later pair replaces an equal key
collect(pairs) ==
    IF pairs = <<>> THEN EmptyMap
    ELSE LET last == pairs[Len(pairs)]
         IN  (last[1] :> last[2]) @@ collect(SubSeq(pairs, 1, Len(pairs) - 1))

\* impl Default for UnitResource
UnitResource_default ==
    collect(<<
        <<"Acolyte", [cost |-> 40]>>,
        <<"Warrior", [cost |-> 30]>>,
        <<"Cat", [cost |-> 20]>>
    >>)

\* UnitResource::get: HashMap indexing, which panics on an absent key
UnitResource_get(map, unit_type) ==
    IF unit_type \in DOMAIN map
    THEN [status |-> "ok", unit_type |-> unit_type, cost |-> map[unit_type].cost]
    ELSE [status |-> "panic", unit_type |-> unit_type, cost |-> 0]

-----------------------------------------------------------------------------
(* Initial state and actions *)

Init ==
    /\ world = EmptyMap
    /\ queue = <<>>
    /\ next_id = 1
    /\ calls = <<>>
    /\ unit_resource = [ready |-> FALSE, map |-> EmptyMap]
    /\ lookup = [status |-> "none", unit_type |-> "none", cost |-> 0]
    /\ panicked = FALSE
    /\ default_team \in Team
    /\ default_weight \in DefaultWeights

\* a system calls spawn_unit(commands, .., unit_component, team, spawn_position)
SpawnUnit(unit_component, team, spawn_position) ==
    /\ ~panicked
    /\ Len(calls) < MaxSpawns
    /\ LET entity == next_id
           n == Len(create_children_spawn_params(unit_component))
       IN  /\ queue' = queue \o spawn_unit(unit_component, team, spawn_position, entity)
           /\ next_id' = entity + n + 1
           /\ calls' = Append(calls, [unit_component |-> unit_component,
                                      team |-> team,
                                      spawn_position |-> spawn_position,
                                      entity |-> entity,
                                      reserved |-> n + 1])
    /\ UNCHANGED <<world, unit_resource, lookup, panicked, default_team, default_weight>>

\* the schedule's synchronisation point: every queued command is applied
ApplyDeferred ==
    /\ ~panicked
    /\ queue # <<>>
    /\ world' = ApplyAll(world, queue)
    /\ queue' = <<>>
    /\ UNCHANGED <<next_id, calls, unit_resource, lookup, panicked,
                   default_team, default_weight>>

\* the registry is constructed: UnitResource::default()
InitResource ==
    /\ ~panicked
    /\ ~unit_resource.ready
    /\ unit_resource' = [ready |-> TRUE, map |-> UnitResource_default]
    /\ UNCHANGED <<world, queue, next_id, calls, lookup, panicked,
                   default_team, default_weight>>

\* a system reads the registry: unit_resource.get(unit_type)
Get(unit_type) ==
    /\ ~panicked
    /\ unit_resource.ready
    /\ lookup' = UnitResource_get(unit_resource.map, unit_type)
    /\ panicked' = (lookup'.status = "panic")
    /\ UNCHANGED <<world, queue, next_id, calls, unit_resource,
                   default_team, default_weight>>

SpawnAny ==
    \E unit_component \in UnitType, team \in Team, spawn_position \in SpawnPositions :
        SpawnUnit(unit_component, team, spawn_position)

SpawnMalformed ==
    \E unit_component \in MalformedFactories, team \in Team,
       spawn_position \in SpawnPositions :
        SpawnUnit(unit_component, team, spawn_position)

GetAny == \E unit_type \in UnitType : Get(unit_type)

\* the whole program: spawning and the registry
Next == SpawnAny \/ ApplyDeferred \/ InitResource \/ GetAny

Spec == Init /\ [][Next]_vars

\* the spawn path alone; it shares no state with the registry
NextSpawn == SpawnAny \/ ApplyDeferred

SpecSpawn == Init /\ [][NextSpawn]_vars

\* spawn_unit also handed implementors other than the four unit types
NextAny == NextSpawn \/ SpawnMalformed

SpecAny == Init /\ [][NextAny]_vars

-----------------------------------------------------------------------------
(* Vocabulary of the properties *)

MarkerComponents ==
    {"IdleBehavior", "MoveOrigoBehavior", "WanderBehavior", "ChaseBehavior",
     "FleeBehavior", "AttackBehavior", "DeadBehavior"}

\* the behavior kinds a supported_behaviors list names
Kinds(supported_behaviors) ==
    {supported_behaviors[i][1] : i \in 1..Len(supported_behaviors)}

\* the marker components present on an entity
Markers(e) == DOMAIN world[e] \cap MarkerComponents

\* the entities whose Parent component names e
ChildrenOf(e) ==
    {c \in DOMAIN world : "Parent" \in DOMAIN world[c] /\ world[c].Parent = e}

\* the ids call i reserved: the unit and its animation children
Reserved(i) == calls[i].entity .. (calls[i].entity + calls[i].reserved - 1)

\* call i still has commands waiting in the queue
Pending(i) ==
    \E k \in 1..Len(queue) :
        calls[i].entity <= queue[k].entity
        /\ queue[k].entity < calls[i].entity + calls[i].reserved

Applied(i) == ~Pending(i)

AppliedCalls == {i \in 1..Len(calls) : Applied(i)}

\* the repertoire invariant of the data model
RepertoireOK(behavior_bundle) ==
    behavior_bundle.current_behavior \in Kinds(behavior_bundle.supported_behaviors)

\* the animation clip invariants of the data model
ClipsOK(params) ==
    /\ Cardinality({i \in 1..Len(params) : params[i].kind = "Idle"}) = 1
    /\ \A i \in 1..Len(params) :
         params[i].frame_count <= params[i].grid[1] * params[i].grid[2]

WellFormed(unit_component) ==
    /\ RepertoireOK(create_behavior_bundle(unit_component))
    /\ ClipsOK(create_children_spawn_params(unit_component))

-----------------------------------------------------------------------------
(* Properties *)

\* C1: every unit spawn_unit created has the movement speed, health and scale
\* of its factory's create_unit_bundle(), the team passed to the call, and
\* translation (x, y, 0) for the position passed to the call.
C1_StatsTeamPosition ==
    \A i \in AppliedCalls :
        LET c == calls[i]
            b == create_unit_bundle(c.unit_component)
        IN  /\ c.entity \in DOMAIN world
            /\ world[c.entity].Movement.speed = b.movement.speed
            /\ world[c.entity].Health = b.health
            /\ world[c.entity].Transform.scale = b.transform.scale
            /\ world[c.entity].CurrentTeam = c.team
            /\ world[c.entity].Transform.translation
                 = <<c.spawn_position[1], c.spawn_position[2], 0>>

\* two spawns have taken effect, the later one for a team other than the default
C1_Witness ==
    /\ AppliedCalls = {1, 2}
    /\ calls[2].team # default_team
    /\ calls[2].spawn_position # calls[1].spawn_position
    /\ world[calls[2].entity].CurrentTeam = calls[2].team

\* C2: a spawned unit carries exactly one marker component per entry of its
\* factory's supported_behaviors (as many markers as entries, each marker
\* holding the behavior of an entry), and its CurrentBehavior is the
\* current_behavior of create_behavior_bundle().
C2_MarkersMatchRepertoire ==
    \A i \in AppliedCalls :
        LET e == calls[i].entity
            bb == create_behavior_bundle(calls[i].unit_component)
        IN  /\ e \in DOMAIN world
            /\ Cardinality(Markers(e)) = Len(bb.supported_behaviors)
            /\ {world[e][m] : m \in Markers(e)} = Kinds(bb.supported_behaviors)
            /\ world[e].CurrentBehavior = bb.current_behavior

\* an Acolyte with its three markers is in the world
C2_Witness ==
    \E i \in AppliedCalls :
        /\ calls[i].unit_component = "Acolyte"
        /\ Markers(calls[i].entity) = {"IdleBehavior", "FleeBehavior", "DeadBehavior"}

\* the world holds, for every applied call, its unit with exactly the
\* children of its clip list, and nothing else
C3_OneParentNChildren ==
    /\ \A i \in AppliedCalls :
         LET e == calls[i].entity
             n == Len(create_children_spawn_params(calls[i].unit_component))
         IN  /\ e \in DOMAIN world
             /\ "Parent" \notin DOMAIN world[e]
             /\ Cardinality(ChildrenOf(e)) = n
             /\ "Children" \in DOMAIN world[e]
             /\ Len(world[e].Children) = n
             /\ Range(world[e].Children) = ChildrenOf(e)
    /\ \A x \in DOMAIN world :
         \E i \in AppliedCalls :
             \/ x = calls[i].entity
             \/ x \in ChildrenOf(calls[i].entity)

\* entities already in the world are left as they were
C3_Frame ==
    \A e \in DOMAIN world : e \in DOMAIN world' /\ world'[e] = world[e]

\* C3: each spawn_unit call adds one parent entity and one child per entry of
\* create_children_spawn_params(), each parented to the new entity, and
\* changes no entity that existed before.
C3_SpawnEffect == [](C3_OneParentNChildren) /\ [][C3_Frame]_vars

\* an Acolyte and then a Knight were spawned: 2 parents, 3 + 4 children
C3_Witness ==
    /\ AppliedCalls = {1, 2}
    /\ calls[1].unit_component = "Acolyte"
    /\ calls[2].unit_component = "Knight"
    /\ Cardinality(DOMAIN world) = 9
    /\ Cardinality(ChildrenOf(calls[2].entity)) = 4

\* C4: a spawn_unit call with a malformed factory creates nothing.
C4_MalformedRejected ==
    \A i \in 1..Len(calls) :
        ~WellFormed(calls[i].unit_component)
            => \A x \in Reserved(i) : x \notin DOMAIN world

\* C6: the constructed registry has an entry for each of the four unit
\* types, and get succeeds for each with cost > 0.
C6_RegistryTotal ==
    /\ unit_resource.ready =>
         /\ Cardinality(DOMAIN unit_resource.map) = Cardinality(UnitType)
         /\ \A t \in UnitType :
              /\ UnitResource_get(unit_resource.map, t).status = "ok"
              /\ UnitResource_get(unit_resource.map, t).cost > 0
    /\ lookup.status # "panic"

\* C7: construction of the registry never completes with a declared unit
\* type missing, and no lookup returns a value for a type without an entry.
C7_InitAbortsOnMissing ==
    /\ unit_resource.ready => UnitType \ DOMAIN unit_resource.map = {}
    /\ lookup.status = "ok" => lookup.unit_type \in DOMAIN unit_resource.map

\* C8: for each of the four factories, current_behavior of
\* create_behavior_bundle() is the kind of an entry of its supported_behaviors.
C8_InitialBehaviorListed ==
    \A f \in UnitType :
        /\ Len(create_behavior_bundle(f).supported_behaviors) > 0
        /\ RepertoireOK(create_behavior_bundle(f))

\* a Warrior, built from BehaviorBundle::default(), is in the world
C8_Witness ==
    \E i \in AppliedCalls :
        /\ calls[i].unit_component = "Warrior"
        /\ world[calls[i].entity].CurrentBehavior
             \in Kinds(world[calls[i].entity].SupportedBehaviors)

\* C9: for each of the four factories, create_children_spawn_params() has
\* exactly one Idle clip and every clip has frame_count <= columns * rows;
\* so do the clips carried by the animation children of every spawned unit.
C9_ClipsWellFormed ==
    /\ \A f \in UnitType : ClipsOK(create_children_spawn_params(f))
    /\ \A i \in AppliedCalls :
         /\ Cardinality({c \in ChildrenOf(calls[i].entity) :
                           world[c].AnimatedChild.kind = "Idle"}) = 1
         /\ \A c \in ChildrenOf(calls[i].entity) :
              world[c].AnimatedChild.frame_count
                <= world[c].AnimatedChild.grid[1] * world[c].AnimatedChild.grid[2]

\* a Cat and an Acolyte, with their 4 and 3 animation children, are in the world
C9_Witness ==
    /\ \E i \in AppliedCalls :
         /\ calls[i].unit_component = "Cat"
         /\ Cardinality(ChildrenOf(calls[i].entity)) = 4
    /\ \E i \in AppliedCalls :
         /\ calls[i].unit_component = "Acolyte"
         /\ Cardinality(ChildrenOf(calls[i].entity)) = 3

\* C10: a spawned Knight (speed 250, health 90) has CurrentBehavior MoveOrigo
\* and a SupportedBehaviors list of 5 entries, Wander, MoveOrigo, Chase,
\* Attack, Dead in that order, with strictly increasing weights.
C10_KnightLadder ==
    \A i \in AppliedCalls :
        calls[i].unit_component = "Knight" =>
            LET e == world[calls[i].entity]
                sb == e.SupportedBehaviors
            IN  /\ e.Movement.speed = 250
                /\ e.Health = 90
                /\ e.CurrentBehavior = "MoveOrigo"
                /\ e.CurrentBehavior # "Idle"
                /\ Len(sb) = 5
                /\ [k \in 1..Len(sb) |-> sb[k][1]]
                     = <<"Wander", "MoveOrigo", "Chase", "Attack", "Dead">>
                /\ \A k \in 1..(Len(sb) - 1) : sb[k][2] < sb[k + 1][2]

\* a Knight is in the world
C10_Witness ==
    \E i \in AppliedCalls :
        /\ calls[i].unit_component = "Knight"
        /\ calls[i].entity \in DOMAIN world
        /\ "MoveOrigoBehavior" \in DOMAIN world[calls[i].entity]

====
